---- MODULE Spec2Model ----
(***************************************************************************)
(* A model of mcp-sync (sodeyama/sync-mcp-config): the converters of      *)
(* src/converters, the BackupManager and ConfigManager of src/core and    *)
(* the SyncEngine that drives them.                                       *)
(*                                                                         *)
(* A JSON object is a sequence of <<key, value>> pairs in insertion       *)
(* order, so that JSON.stringify equality is equality of sequences.  A    *)
(* map of servers is a function from a set of server names to entries.    *)
(***************************************************************************)
EXTENDS Naturals, Sequences, FiniteSets, TLC

VARIABLES
    master,     \* the master file ~/.mcp/mcp_settings.json
    config,     \* ConfigManager.config, the cached record
    live,       \* the live file of every tool
    backups,    \* the backup directory: per tool, timestamp -> snapshot content
    clock,      \* the reading of new Date(), in milliseconds
    faults,     \* I/O failures the filesystem may still produce
    pc,         \* position of the running command
    run,        \* the invocation in progress: its options, queue and results
    pre,        \* the files as they were when the invocation started
    rt,         \* the converter call under test: its adapter, input and output
    taken       \* per tool, the clock readings of the snapshots createBackup has made

vars == <<master, config, live, backups, clock, faults, pc, run, pre, rt, taken>>

----------------------------------------------------------------------------
(* JSON objects *)

Has(obj, k) == \E i \in DOMAIN obj : obj[i][1] = k

Get(obj, k) == obj[CHOOSE i \in DOMAIN obj : obj[i][1] = k][2]

Keys(obj) == {obj[i][1] : i \in DOMAIN obj}

\* the pair <<k, obj.k>> when cond holds of a present key, else nothing
Field(obj, k, cond) == IF Has(obj, k) /\ cond THEN << <<k, Get(obj, k)>> >> ELSE <<>>

\* a string-valued field is truthy when it is present and not ""
Truthy(obj, k) == Has(obj, k) /\ Get(obj, k) # ""

NoServers == [n \in {} |-> <<>>]

----------------------------------------------------------------------------
(* The tools *)

\* ToolType
AllTools == {"claude", "cline", "roo", "cursor", "vscode", "claude-code"}

\* the keys of SyncEngine.converters, in insertion order
Registered == <<"claude", "cline", "roo", "cursor", "vscode">>

RegisteredSet == {Registered[i] : i \in DOMAIN Registered}

\* the converters whose writeConfig spreads the live file under mcpServers
SpreadTools == {"claude", "cursor", "claude-code"}

ToolLabel(tool) ==
    CASE tool = "claude" -> "Imported from Claude Desktop"
      [] tool = "cline" -> "Imported from Cline"
      [] tool = "roo" -> "Imported from Roo Code"
      [] tool = "cursor" -> "Imported from Cursor"
      [] tool = "vscode" -> "Imported from VS Code"
      [] OTHER -> "Imported from Claude Code"

----------------------------------------------------------------------------
(* BaseConverter *)

normalizeMCPServerConfig(c) ==
    Field(c, "command", TRUE)
      \o Field(c, "args", TRUE)
      \o Field(c, "env", TRUE)
      \o Field(c, "disabled", TRUE)
      \o Field(c, "alwaysAllow", TRUE)
      \o Field(c, "autoApprove", TRUE)
      \o Field(c, "transport", Truthy(c, "transport"))
      \o Field(c, "type", Truthy(c, "type"))
      \o Field(c, "url", Truthy(c, "url"))

isValidMCPServerConfig(c) ==
    /\ Truthy(c, "command")
    /\ Has(c, "transport") => Get(c, "transport") \in {"stdio", "sse", "http"}

\* a document: the foreign top-level keys, and the servers key when present
Doc(foreign, hasServers, servers) ==
    [foreign |-> foreign, hasServers |-> hasServers, servers |-> servers]

IsDisabled(c) == Has(c, "disabled") /\ Get(c, "disabled")

EnabledNames(servers) == {n \in DOMAIN servers : ~IsDisabled(servers[n])}

NoForeign == [k \in {} |-> ""]

EmptyDoc == Doc(NoForeign, FALSE, NoServers)

\* a file: absent, unparseable, or a JSON document
AbsentFile == [kind |-> "absent", doc |-> EmptyDoc]

CorruptFile == [kind |-> "corrupt", doc |-> EmptyDoc]

JsonFile(doc) == [kind |-> "json", doc |-> doc]

\* getDefaultConfig: {} for VS Code, {mcpServers: {}} for the others
getDefaultConfig(tool) ==
    IF tool = "vscode" THEN EmptyDoc ELSE Doc(NoForeign, TRUE, NoServers)

\* readConfig throws on a file that does not parse
readThrows(file) == file.kind = "corrupt"

readConfig(tool, file) ==
    IF file.kind = "absent" THEN getDefaultConfig(tool) ELSE file.doc

\* BaseConverter.writeConfig: the file becomes the document
baseWriteConfig(cfg) == JsonFile(cfg)

\* the live document as the overriding writeConfig sees it: {} when the read throws
existingConfig(tool, file) ==
    IF readThrows(file) THEN EmptyDoc ELSE readConfig(tool, file)

\* a variant that writes the projected document over the file
writeConfigOverwrite(tool, file, cfg) == baseWriteConfig(cfg)

\* a variant of writeConfig that leaves the live file as it is
writeConfigNothing(tool, file, cfg) == file

\* writeConfig of each converter: the content of the live file after the write
writeConfig(tool, file, cfg) ==
    IF tool \in SpreadTools
    THEN baseWriteConfig(Doc(existingConfig(tool, file).foreign,
                             cfg.hasServers, cfg.servers))
    ELSE IF tool = "vscode"
    THEN IF cfg.hasServers /\ DOMAIN cfg.servers # {}
         THEN baseWriteConfig(Doc(existingConfig(tool, file).foreign,
                                  TRUE, cfg.servers))
         ELSE baseWriteConfig(Doc(existingConfig(tool, file).foreign,
                                  FALSE, NoServers))
    ELSE baseWriteConfig(cfg)

\* a variant that projects every server of the master, disabled or not
projectServersAll(mcpServers) ==
    [n \in DOMAIN mcpServers |-> normalizeMCPServerConfig(mcpServers[n])]

\* the enabled servers of the master, normalized
projectServers(mcpServers) ==
    [n \in EnabledNames(mcpServers) |-> normalizeMCPServerConfig(mcpServers[n])]

convertFromMaster(tool, masterConfig) ==
    IF tool = "vscode" /\ EnabledNames(masterConfig.mcpServers) = {}
    THEN EmptyDoc
    ELSE Doc(NoForeign, TRUE, projectServers(masterConfig.mcpServers))

\* a variant whose imported record switches the snapshots off
ImportedSettingsNoBackup == << <<"backupEnabled", FALSE>>, <<"syncOnChange", TRUE>> >>

\* globalSettings of every convertToMaster result
ImportedSettings == << <<"backupEnabled", TRUE>>, <<"syncOnChange", TRUE>> >>

MasterConfig(mcpServers, globalSettings) ==
    [mcpServers |-> mcpServers, globalSettings |-> globalSettings]

importEntry(tool, c) ==
    normalizeMCPServerConfig(c) \o << <<"metadata", ToolLabel(tool)>> >>

\* the entries convertToMaster and extractMCPServers take from a document
importedNames(tool, doc) ==
    IF tool = "vscode"
    THEN {n \in DOMAIN doc.servers : isValidMCPServerConfig(doc.servers[n])}
    ELSE DOMAIN doc.servers

convertToMaster(tool, doc) ==
    MasterConfig([n \in importedNames(tool, doc) |-> importEntry(tool, doc.servers[n])],
                 ImportedSettings)

extractMCPServers(tool, doc) ==
    [n \in importedNames(tool, doc) |-> doc.servers[n]]

\* detectChanges: the names added, modified and removed
detectChanges(tool, oldConfig, newConfig) ==
    LET oldServers == extractMCPServers(tool, oldConfig)
        newServers == extractMCPServers(tool, newConfig)
    IN  [added |-> DOMAIN newServers \ DOMAIN oldServers,
         removed |-> DOMAIN oldServers \ DOMAIN newServers,
         modified |-> {n \in DOMAIN oldServers \cap DOMAIN newServers :
                          oldServers[n] # newServers[n]}]

----------------------------------------------------------------------------
(* The values the model draws its inputs from *)

Names == {"a", "b"}

EntryNode ==
    << <<"command", "node">>, <<"args", <<"s.js">> >>, <<"env", << <<"K", "v">> >> >> >>

\* empty args, empty env and an empty url: all accepted by MCPServerConfigSchema
EntryEdge ==
    << <<"command", "py">>, <<"args", <<>> >>, <<"env", <<>> >>, <<"url", "">> >>

EntryOff == << <<"command", "rb">>, <<"disabled", TRUE>> >>

EntrySse ==
    << <<"command", "node">>, <<"disabled", FALSE>>, <<"transport", "sse">>,
       <<"url", "http://h">> >>

\* an entry with two args and two env keys
EntryTwo ==
    << <<"command", "node">>, <<"args", <<"x", "y">> >>,
       <<"env", << <<"K", "v">>, <<"L", "w">> >> >> >>

MasterEntries == {EntryNode, EntryEdge, EntryOff, EntrySse, EntryTwo}

Maps(keys, entries) == UNION {[S -> entries] : S \in SUBSET keys}

MasterMaps == Maps(Names, MasterEntries)

----------------------------------------------------------------------------
(* ConfigManager *)

\* MCPServerConfigSchema: command is a non-empty string, transport and type are
\* of the enum; url is an optional string whatever the transport
validEntry(c) ==
    /\ Truthy(c, "command")
    /\ Has(c, "transport") => Get(c, "transport") \in {"stdio", "sse", "http"}
    /\ Has(c, "type") => Get(c, "type") \in {"stdio", "sse", "http"}

\* validateConfig throws unless MasterConfigSchema accepts the record
validateThrows(cfg) == \E n \in DOMAIN cfg.mcpServers : ~validEntry(cfg.mcpServers[n])

NullConfig == [kind |-> "null", cfg |-> MasterConfig(NoServers, <<>>)]

Cached(cfg) == [kind |-> "json", cfg |-> cfg]

AbsentMaster == [kind |-> "absent", cfg |-> MasterConfig(NoServers, <<>>)]

MasterFile(cfg) == [kind |-> "json", cfg |-> cfg]

\* loadConfig throws when the file cannot be read or is rejected
loadThrows(file) == file.kind # "json" \/ validateThrows(file.cfg)

----------------------------------------------------------------------------
(* BackupManager *)

\* the retention count: the constructor's maxBackups (10 by default), scaled down
maxBackups == 2

RECURSIVE SortDesc(_)
SortDesc(S) ==
    IF S = {} THEN <<>>
    ELSE LET m == CHOOSE x \in S : \A y \in S : y <= x
         IN  <<m>> \o SortDesc(S \ {m})

Reverse(seq) == [i \in 1..Len(seq) |-> seq[Len(seq) + 1 - i]]

\* a variant that lists the oldest snapshot first
listBackupsOldestFirst(dir) == Reverse(SortDesc(DOMAIN dir))

\* listBackups(tool): the snapshots of one tool, newest first, by their timestamps
listBackups(dir) == SortDesc(DOMAIN dir)

Restrict(f, S) == [x \in S |-> f[x]]

\* cleanupOldBackups: delete the oldest snapshots beyond maxBackups
cleanupOldBackups(dir) ==
    LET newestFirst == listBackups(dir)
    IN  IF Len(newestFirst) <= maxBackups THEN dir
        ELSE Restrict(dir, {newestFirst[i] : i \in 1..maxBackups})

\* the copy of createBackup: the snapshot is named after the tool and the clock
copySnapshot(dir, file, now) ==
    [ts \in DOMAIN dir \cup {now} |-> IF ts = now THEN file ELSE dir[ts]]

\* a variant that takes no snapshot
createBackupSkipped(dir, file, now) == dir

\* createBackup: nothing for an absent file, else copy and prune
createBackup(dir, file, now) ==
    IF file.kind = "absent" THEN dir
    ELSE cleanupOldBackups(copySnapshot(dir, file, now))

NoSnapshots == [ts \in {} |-> AbsentFile]

----------------------------------------------------------------------------
(* SyncEngine *)

RECURSIVE Without(_, _)
Without(seq, S) ==
    IF seq = <<>> THEN <<>>
    ELSE (IF Head(seq) \in S THEN <<>> ELSE <<Head(seq)>>) \o Without(Tail(seq), S)

\* getEnabledTools: the registered tools not in globalSettings.excludeTools
getEnabledTools(masterConfig) ==
    Without(Registered,
            IF Has(masterConfig.globalSettings, "excludeTools")
            THEN Get(masterConfig.globalSettings, "excludeTools") ELSE {})

\* syncFromMaster: options.tools || getEnabledTools(masterConfig)
resolveTools(opts, masterConfig) ==
    IF opts.hasTools THEN opts.tools ELSE getEnabledTools(masterConfig)

\* a variant that leaves the source among its own targets
fanOutToolsWithSource(opts, sourceTool) ==
    IF opts.hasTools THEN opts.tools ELSE Registered

\* syncFromTool: (options.tools || all converters) without the source
fanOutTools(opts, sourceTool) ==
    Without(IF opts.hasTools THEN opts.tools ELSE Registered, {sourceTool})

\* a SyncResult; fault is the I/O failure the filesystem produced at that target
Failure(tool, error, fault) ==
    [tool |-> tool, success |-> FALSE, error |-> error, fault |-> fault,
     addedServers |-> 0, modifiedServers |-> 0, removedServers |-> 0]

Success(tool, changes) ==
    [tool |-> tool, success |-> TRUE, error |-> "", fault |-> "none",
     addedServers |-> Cardinality(changes.added),
     modifiedServers |-> Cardinality(changes.modified),
     removedServers |-> Cardinality(changes.removed)]

\* masterConfig.globalSettings.backupEnabled, as a condition
backupEnabled(masterConfig) ==
    Has(masterConfig.globalSettings, "backupEnabled")
      /\ Get(masterConfig.globalSettings, "backupEnabled")

\* what one syncToolFromMaster leaves: the live file, the tool's backups, the result
Outcome(file, dir, result) == [file |-> file, dir |-> dir, result |-> result]

\* the dry-run branch: read and diff, nothing written
previewTool(tool, masterConfig, file, dir) ==
    IF readThrows(file)
    THEN Outcome(file, dir, Failure(tool, "read", "none"))
    ELSE Outcome(file, dir,
                 Success(tool, detectChanges(tool, readConfig(tool, file),
                                             convertFromMaster(tool, masterConfig))))

\* a variant in which a failed copy does not fail createBackup
copyFailureIgnored(copies, fault) == FALSE

\* createBackup rethrows the failure of its copy; cleanupOldBackups catches its own
copyFails(copies, fault) == copies /\ fault = "copy"

\* the writing branch: snapshot, read, project, diff, write
applyTool(tool, masterConfig, opts, file, dir, now, fault) ==
    LET wanted == ~opts.skipBackup /\ backupEnabled(masterConfig)
        copies == wanted /\ file.kind # "absent"
        dir1 == IF copies /\ fault # "copy"
                THEN (IF fault = "prune" THEN copySnapshot(dir, file, now)
                      ELSE createBackup(dir, file, now))
                ELSE dir
        newConfig == convertFromMaster(tool, masterConfig)
    IN  IF copyFails(copies, fault)
        THEN Outcome(file, dir, Failure(tool, "backup", fault))
        ELSE IF readThrows(file)
        THEN Outcome(file, dir1, Failure(tool, "read", "none"))
        ELSE IF fault = "write"
        THEN Outcome(file, dir1, Failure(tool, "write", fault))
        ELSE Outcome(writeConfig(tool, file, newConfig), dir1,
                     Success(tool, detectChanges(tool, readConfig(tool, file), newConfig)))

\* a variant that applies the changes of a dry run
syncToolIgnoringDryRun(tool, masterConfig, opts, file, dir, now, fault) ==
    IF tool \notin RegisteredSet
    THEN Outcome(file, dir, Failure(tool, "Unknown tool", "none"))
    ELSE applyTool(tool, masterConfig, opts, file, dir, now, fault)

syncToolFromMaster(tool, masterConfig, opts, file, dir, now, fault) ==
    IF tool \notin RegisteredSet
    THEN Outcome(file, dir, Failure(tool, "Unknown tool", "none"))
    ELSE IF opts.dryRun
    THEN previewTool(tool, masterConfig, file, dir)
    ELSE applyTool(tool, masterConfig, opts, file, dir, now, fault)

\* a variant that gives up on the remaining targets after a failure
restAfterFailureStops(queue, result) == IF result.success THEN Tail(queue) ELSE <<>>

\* the for loop of syncFromMaster and syncFromTool: on to the next target
rest(queue, result) == Tail(queue)

\* a variant that goes on to the targets although the master was not saved
initialStepThrowsOnReadOnly(sourceTool, file, fault) ==
    readThrows(file)

\* syncFromTool's readConfig, convertToMaster and saveConfig: does one of them throw
initialStepThrows(sourceTool, file, fault) ==
    \/ readThrows(file)
    \/ validateThrows(convertToMaster(sourceTool, readConfig(sourceTool, file)))
    \/ fault = "save"

----------------------------------------------------------------------------
(* More input values *)

EntryOld == << <<"command", "node">>, <<"args", <<"old.js">> >> >>

\* an entry no validation accepts: its command is empty
EntryBad == << <<"args", <<"x">> >>, <<"command", "">> >>

Theme == [k \in {"theme"} |-> "dark"]

UserDocA == Doc(Theme, TRUE, [n \in {"a"} |-> EntryOld])

UserDocB == Doc(Theme, TRUE, [n \in {"a", "b"} |-> IF n = "a" THEN EntryNode ELSE EntryBad])

UserDocC == Doc(Theme, FALSE, NoServers)

FileChoices ==
    {AbsentFile, CorruptFile, JsonFile(UserDocA), JsonFile(UserDocB), JsonFile(UserDocC)}

\* the live files at the start: one content for claude, roo and vscode, one for the rest
LiveChoices ==
    {[t \in AllTools |-> IF t \in {"claude", "roo", "vscode"} THEN f ELSE g] :
        f \in FileChoices, g \in {AbsentFile, JsonFile(UserDocA)}}

Settings(enabled, excluded) ==
    << <<"backupEnabled", enabled>>, <<"syncOnChange", TRUE>>,
       <<"excludeTools", excluded>> >>

\* globalSettings that ask for a single backup per target
SettingsKeepOne == Settings(TRUE, {}) \o << <<"backupRetentionCount", 1>> >>

SettingsChoices == {Settings(TRUE, {}), Settings(TRUE, {"cline"}), Settings(FALSE, {})}

SyncMasterMaps ==
    {m \in MasterMaps : ("a" \in DOMAIN m => m["a"] \in {EntryNode, EntryEdge})
                        /\ ("b" \in DOMAIN m => m["b"] = EntryOff)}

MasterChoices ==
    {AbsentMaster, MasterFile(MasterConfig([n \in {"a"} |-> EntryNode], SettingsKeepOne))} \cup
    {MasterFile(MasterConfig(m, gs)) : m \in SyncMasterMaps, gs \in SettingsChoices}

\* snapshots of earlier runs, taken when the clock read 0 and 1
OldSnapshots == [ts \in {0, 1} |-> IF ts = 0 THEN CorruptFile ELSE JsonFile(UserDocC)]

\* claude, cline and vscode have been backed up before, the others never
OldBackups ==
    [t \in AllTools |-> IF t \in {"claude", "cline", "vscode"} THEN OldSnapshots
                        ELSE NoSnapshots]

ToolChoices ==
    {[has |-> FALSE, list |-> <<>>],
     [has |-> TRUE, list |-> <<"vscode", "claude-code", "claude">>],
     [has |-> TRUE, list |-> <<"cursor", "roo">>]}

Options(tc, dryRun, skipBackup) ==
    [hasTools |-> tc.has, tools |-> tc.list, dryRun |-> dryRun, skipBackup |-> skipBackup]

\* a dry run takes no snapshot whatever skipBackup says: it is drawn with skipBackup unset
OptionChoices ==
    {Options(tc, d, k) : tc \in ToolChoices, d \in BOOLEAN, k \in BOOLEAN} \
    {Options(tc, TRUE, TRUE) : tc \in ToolChoices}

\* the clock never passes this reading
MaxClock == 3

\* the filesystem fails at most this often
MaxFaults == 1

----------------------------------------------------------------------------
(* The state machine of one invocation *)

NoRun ==
    [kind |-> "none", source |-> "none", opts |-> Options([has |-> FALSE, list |-> <<>>], FALSE, FALSE),
     masterConfig |-> MasterConfig(NoServers, <<>>), queue |-> <<>>, results |-> <<>>,
     fault |-> "none", restored |-> "none"]

NoRoundTrip == [tool |-> "none", input |-> NoServers, output |-> NoServers]

NoneTaken == [t \in AllTools |-> <<>>]

Files == [master |-> master, live |-> live, backups |-> backups]

Init ==
    /\ master \in MasterChoices
    /\ config = NullConfig
    /\ live \in LiveChoices
    /\ backups = OldBackups
    /\ clock \in {1, MaxClock}
    /\ faults = MaxFaults
    /\ pc = "idle"
    /\ run = NoRun
    /\ pre = Files
    /\ rt = NoRoundTrip
    /\ taken = NoneTaken

\* syncFromMaster(options): load the master and resolve the targets
SyncFromMaster(opts) ==
    /\ pc = "idle"
    /\ pre' = Files
    /\ IF loadThrows(master)
       THEN /\ pc' = "threw"
            /\ run' = [NoRun EXCEPT !.kind = "master", !.opts = opts]
            /\ UNCHANGED config
       ELSE /\ pc' = "syncing"
            /\ config' = Cached(master.cfg)
            /\ run' = [NoRun EXCEPT !.kind = "master", !.opts = opts,
                                    !.masterConfig = master.cfg,
                                    !.queue = resolveTools(opts, master.cfg)]
    /\ UNCHANGED <<master, live, backups, clock, faults, rt, taken>>

\* syncFromTool(sourceTool, options): read the source, replace the master, fan out
SyncFromTool(sourceTool, opts) ==
    /\ pc = "idle"
    /\ pre' = Files
    /\ IF sourceTool \notin RegisteredSet
       THEN /\ pc' = "threw"
            /\ run' = [NoRun EXCEPT !.kind = "tool", !.source = sourceTool, !.opts = opts]
            /\ UNCHANGED <<master, config, faults>>
       ELSE \E fault \in {"none"} \cup (IF faults > 0 THEN {"save"} ELSE {}) :
            LET masterConfig ==
                    convertToMaster(sourceTool, readConfig(sourceTool, live[sourceTool]))
            IN  /\ faults' = IF fault = "none" THEN faults ELSE faults - 1
                /\ IF initialStepThrows(sourceTool, live[sourceTool], fault)
                   THEN /\ pc' = "done"
                        /\ run' = [NoRun EXCEPT !.kind = "tool", !.source = sourceTool,
                                      !.opts = opts, !.fault = fault,
                                      !.results = <<Failure(sourceTool, "source", fault)>>]
                        /\ UNCHANGED <<master, config>>
                   ELSE /\ pc' = "syncing"
                        /\ master' = MasterFile(masterConfig)
                        /\ config' = Cached(masterConfig)
                        /\ run' = [NoRun EXCEPT !.kind = "tool", !.source = sourceTool,
                                      !.opts = opts, !.fault = fault,
                                      !.masterConfig = masterConfig,
                                      !.queue = fanOutTools(opts, sourceTool)]
    /\ UNCHANGED <<live, backups, clock, rt, taken>>

\* the I/O failures that can strike syncToolFromMaster for this tool now
StepFaults(tool) ==
    LET applies == tool \in RegisteredSet /\ ~run.opts.dryRun /\ faults > 0
        copies == /\ ~run.opts.skipBackup
                  /\ backupEnabled(run.masterConfig)
                  /\ live[tool].kind # "absent"
        prunes == copies /\ Cardinality(DOMAIN backups[tool] \cup {clock}) > maxBackups
    IN  {"none"} \cup (IF applies /\ copies THEN {"copy"} ELSE {})
                 \cup (IF applies /\ prunes THEN {"prune"} ELSE {})
                 \cup (IF applies /\ ~readThrows(live[tool]) THEN {"write"} ELSE {})

\* one iteration of the loop over the targets
SyncToolStep ==
    /\ pc = "syncing"
    /\ run.queue # <<>>
    /\ LET tool == Head(run.queue)
       IN  \E fault \in StepFaults(tool) :
           LET out == syncToolFromMaster(tool, run.masterConfig, run.opts,
                                         live[tool], backups[tool], clock, fault)
           IN  /\ live' = [live EXCEPT ![tool] = out.file]
               /\ backups' = [backups EXCEPT ![tool] = out.dir]
               /\ faults' = IF fault = "none" THEN faults ELSE faults - 1
               /\ run' = [run EXCEPT !.queue = rest(run.queue, out.result),
                                     !.results = Append(run.results, out.result),
                                     !.fault = fault]
    /\ UNCHANGED <<master, config, clock, pc, pre, rt, taken>>

\* the loop is over: the results are returned
Return ==
    /\ pc = "syncing"
    /\ run.queue = <<>>
    /\ pc' = "done"
    /\ UNCHANGED <<master, config, live, backups, clock, faults, run, pre, rt, taken>>

\* restoreBackup(backupInfo): copy the snapshot over the live file
restoreBackup(dir, ts) == dir[ts]

\* the restore command without --id, for a tool this run has synced: the newest backup
Restore(tool) ==
    /\ pc = "done"
    /\ \E i \in DOMAIN run.results :
           run.results[i].tool = tool /\ run.results[i].success /\ ~run.opts.dryRun
    /\ listBackups(backups[tool]) # <<>>
    /\ live' = [live EXCEPT ![tool] = restoreBackup(backups[tool], listBackups(backups[tool])[1])]
    /\ pc' = "restored"
    /\ run' = [run EXCEPT !.restored = tool]
    /\ UNCHANGED <<master, config, backups, clock, faults, pre, rt, taken>>

\* getBackup(tool, backupId): the snapshot of that name, or none
getBackup(dir, id) == IF id \in DOMAIN dir THEN <<id>> ELSE <<>>

\* the outcome the restore command reports for a backup id
RestoreResult(tool, id, found) ==
    [tool |-> tool, id |-> id, success |-> found,
     error |-> IF found THEN "" ELSE "Backup not found"]

\* a variant that falls back to the newest snapshot when the named one is missing
restoreByIdOrNewest(tool, dir, file, id) ==
    IF getBackup(dir, id) = <<>>
    THEN Outcome(IF listBackups(dir) = <<>> THEN file
                 ELSE restoreBackup(dir, listBackups(dir)[1]),
                 dir, RestoreResult(tool, id, FALSE))
    ELSE Outcome(restoreBackup(dir, id), dir, RestoreResult(tool, id, TRUE))

\* restore --id: getBackup, then restoreBackup, which checks the snapshot once more
restoreById(tool, dir, file, id) ==
    IF getBackup(dir, id) = <<>>
    THEN Outcome(file, dir, RestoreResult(tool, id, FALSE))
    ELSE Outcome(restoreBackup(dir, id), dir, RestoreResult(tool, id, TRUE))

\* the restore command with --id
RestoreById(tool, id) ==
    /\ pc = "idle"
    /\ pre' = Files
    /\ LET out == restoreById(tool, backups[tool], live[tool], id)
       IN  /\ live' = [live EXCEPT ![tool] = out.file]
           /\ backups' = [backups EXCEPT ![tool] = out.dir]
           /\ run' = [NoRun EXCEPT !.kind = "restore", !.source = tool,
                                   !.results = <<out.result>>]
           /\ pc' = IF out.result.success THEN "restoredById" ELSE "notFound"
    /\ UNCHANGED <<master, config, clock, faults, rt, taken>>

Next ==
    \/ \E tool \in AllTools, id \in 0..MaxClock : RestoreById(tool, id)
    \/ \E opts \in OptionChoices : SyncFromMaster(opts)
    \/ \E sourceTool \in AllTools, opts \in OptionChoices : SyncFromTool(sourceTool, opts)
    \/ SyncToolStep
    \/ Return
    \/ \E tool \in RegisteredSet : Restore(tool)

Spec == Init /\ [][Next]_vars

\* the sync command without --source, on its own
NextMaster ==
    \/ \E opts \in OptionChoices : SyncFromMaster(opts)
    \/ SyncToolStep
    \/ Return

SpecMaster == Init /\ [][NextMaster]_vars

----------------------------------------------------------------------------
(* Properties of syncFromMaster and syncFromTool *)

\* the five fields the spec names of a server entry
CoreFields == {"command", "args", "env", "transport", "url"}

SameField(x, y, k) == Has(x, k) = Has(y, k) /\ (Has(x, k) => Get(x, k) = Get(y, k))

SameCore(x, y) == \A k \in CoreFields : SameField(x, y, k)

ToolsOf(results) == [i \in DOMAIN results |-> results[i].tool]

Writing == pc \in {"syncing", "done"} /\ ~run.opts.dryRun

\* does this run snapshot the live files it finds
SnapshotsWanted ==
    ~run.opts.dryRun /\ ~run.opts.skipBackup /\ backupEnabled(run.masterConfig)

\* C1: after a successful non-dry-run syncFromMaster to a target, the servers of the
\* target's live file are exactly the enabled servers of the master, each with the
\* master's command, args, env, transport and url.
C1_TargetHoldsEnabledMasterServers ==
    (Writing /\ run.kind = "master") =>
        \A i \in DOMAIN run.results :
            LET r == run.results[i]
                stored == live[r.tool].doc.servers
                wanted == run.masterConfig.mcpServers
            IN  r.success =>
                  /\ live[r.tool].kind = "json"
                  /\ DOMAIN stored = EnabledNames(wanted)
                  /\ \A n \in DOMAIN stored : SameCore(stored[n], wanted[n])

\* one iteration of the target loop that writes an existing live file, snapshots
\* being wanted, leaves the snapshot of this clock reading with the pre-write content
C3_Step ==
    (pc = "syncing" /\ Len(run'.results) = Len(run.results) + 1) =>
        LET r == run'.results[Len(run'.results)]
        IN  (r.success /\ SnapshotsWanted /\ live[r.tool].kind # "absent") =>
                /\ clock \in DOMAIN backups'[r.tool]
                /\ backups'[r.tool][clock] = live[r.tool]

\* C3: when snapshots are wanted and the target's live file exists, the step that
\* writes the live file leaves a snapshot, named after the current clock reading,
\* whose content is the live file as it was before the write.
C3_SnapshotBeforeWrite == [][C3_Step]_vars

\* C3 witness: a target whose existing live file was rewritten and whose snapshot of
\* this run holds the content from before the write.
C3_Witness ==
    /\ Writing /\ SnapshotsWanted
    /\ \E i \in DOMAIN run.results :
           LET r == run.results[i]
           IN  /\ r.success
               /\ pre.live[r.tool].kind = "json"
               /\ live[r.tool] # pre.live[r.tool]
               /\ clock \in DOMAIN backups[r.tool]
               /\ backups[r.tool][clock] = pre.live[r.tool]
               /\ backups[r.tool] # pre.backups[r.tool]

\* the diff of a target's servers against the enabled servers of the master
ExpectedAdded(tool, file, masterConfig) ==
    EnabledNames(masterConfig.mcpServers) \ importedNames(tool, readConfig(tool, file))

ExpectedRemoved(tool, file, masterConfig) ==
    importedNames(tool, readConfig(tool, file)) \ EnabledNames(masterConfig.mcpServers)

ExpectedModified(tool, file, masterConfig) ==
    {n \in importedNames(tool, readConfig(tool, file))
             \cap EnabledNames(masterConfig.mcpServers) :
        readConfig(tool, file).servers[n]
            # normalizeMCPServerConfig(masterConfig.mcpServers[n])}

C6_RestoreNewestUndoesSync ==
    (pc = "restored" /\ SnapshotsWanted /\ pre.live[run.restored].kind # "absent") =>
        live[run.restored] = pre.live[run.restored]

\* C6 witness: a sync that changed the servers of an existing live file has been
\* undone by the restore, although older snapshots of the target exist.
C6_Witness ==
    /\ pc = "restored" /\ SnapshotsWanted
    /\ pre.live[run.restored].kind = "json"
    /\ pre.backups[run.restored] # NoSnapshots
    /\ live[run.restored] = pre.live[run.restored]
    /\ \E i \in DOMAIN run.results :
           LET r == run.results[i]
           IN  /\ r.tool = run.restored /\ r.success
               /\ r.addedServers + r.modifiedServers + r.removedServers > 0

\* the targets syncFromMaster has to go through, from the files at its start
C7_Resolved ==
    IF run.opts.hasTools THEN run.opts.tools
    ELSE SelectSeq(Registered,
                   LAMBDA t : ~(Has(pre.master.cfg.globalSettings, "excludeTools")
                                /\ t \in Get(pre.master.cfg.globalSettings, "excludeTools")))

\* a failure has a cause at its own target: the target is not registered, its live
\* file does not parse, or the filesystem failed at that target
C7_OwnCause(r) ==
    r.tool \notin RegisteredSet \/ readThrows(pre.live[r.tool]) \/ r.fault # "none"

C7_State ==
    (pc \in {"syncing", "done"} /\ run.kind = "master") =>
        /\ ToolsOf(run.results) \o run.queue = C7_Resolved
        /\ pc = "syncing" => ENABLED (SyncToolStep \/ Return)
        /\ pc = "done" => run.queue = <<>>
        /\ \A i \in DOMAIN run.results :
               LET r == run.results[i]
               IN  /\ ~r.success => C7_OwnCause(r)
                   /\ (r.success /\ ~run.opts.dryRun) =>
                        /\ live[r.tool].kind = "json"
                        /\ DOMAIN live[r.tool].doc.servers
                             = EnabledNames(run.masterConfig.mcpServers)

C7_Step == (pc = "syncing" /\ pc' = "syncing") => Len(run'.queue) < Len(run.queue)

\* C7: syncFromMaster terminates (every iteration shortens the queue of targets and
\* an iteration or the return is always possible) with exactly one outcome per
\* resolved target, in order; an outcome is a failure only for a cause at its own
\* target, and the targets after a failed one are still processed and written.
C7_OneOutcomePerTarget == [](C7_State) /\ [][C7_Step]_vars

\* C7 witness: a finished run over all five targets in which one target failed and a
\* later target was written.
C7_Witness ==
    /\ pc = "done" /\ run.kind = "master" /\ ~run.opts.dryRun
    /\ Len(run.results) = Len(Registered)
    /\ \E i, j \in DOMAIN run.results :
           /\ i < j
           /\ ~run.results[i].success
           /\ run.results[j].success
           /\ live[run.results[j].tool] # pre.live[run.results[j].tool]

\* does the initial step of syncFromTool fail: the source does not parse, its
\* conversion is rejected by the master schema, or the save of the master fails
C9_InitialStepFails ==
    \/ readThrows(pre.live[run.source])
    \/ \E n \in DOMAIN pre.live[run.source].doc.servers :
           /\ run.source = "vscode" => isValidMCPServerConfig(pre.live[run.source].doc.servers[n])
           /\ ~validEntry(normalizeMCPServerConfig(pre.live[run.source].doc.servers[n]))
    \/ run.fault = "save"

FromTool == pc = "done" /\ run.kind = "tool" /\ run.source \in RegisteredSet

\* the servers the source's adapter converts from the source's live file
C8_Converted ==
    convertToMaster(run.source, readConfig(run.source, pre.live[run.source])).mcpServers

C8_Common ==
    /\ master.kind = "json"
    /\ master.cfg.mcpServers = C8_Converted
    /\ live[run.source] = pre.live[run.source]
    /\ backups[run.source] = pre.backups[run.source]

\* C8 as stated: on a successful syncFromTool the master's servers are the converted
\* servers of the source, there is exactly one outcome for every other registered
\* target, and the source's live file is neither written nor snapshotted.
C8_OutcomeForEveryOtherTarget ==
    (FromTool /\ ~C9_InitialStepFails) =>
        /\ C8_Common
        /\ {run.results[i].tool : i \in DOMAIN run.results} = RegisteredSet \ {run.source}
        /\ Len(run.results) = Cardinality(RegisteredSet \ {run.source})

\* C8 amended: the fan-out goes over options.tools without the source when the
\* caller names targets, and over every other registered target only otherwise.
C8_OutcomeForEveryFanOutTarget ==
    (FromTool /\ ~C9_InitialStepFails) =>
        /\ C8_Common
        /\ ToolsOf(run.results) =
             SelectSeq(IF run.opts.hasTools THEN run.opts.tools ELSE Registered,
                       LAMBDA t : t # run.source)

\* C8 witness: a syncFromTool without named targets replaced the servers of the
\* master and produced the outcomes of the four other registered targets.
C8_Witness ==
    /\ FromTool /\ ~C9_InitialStepFails /\ ~run.opts.hasTools
    /\ pre.master.kind = "json"
    /\ master.cfg.mcpServers # pre.master.cfg.mcpServers
    /\ master.cfg.mcpServers = C8_Converted
    /\ ToolsOf(run.results) = SelectSeq(Registered, LAMBDA t : t # run.source)
    /\ live[run.source] = pre.live[run.source]

\* C9: when the initial step of syncFromTool fails, no live file is written, no
\* snapshot is taken, and the outcomes are a single failure naming the source.
C9_InitialFailureWritesNothing ==
    (FromTool /\ C9_InitialStepFails) =>
        /\ live = pre.live
        /\ backups = pre.backups
        /\ Len(run.results) = 1
        /\ run.results[1].tool = run.source
        /\ ~run.results[1].success

\* C9 witness: the save of the master failed while other targets had live files that
\* a fan-out would have written and snapshotted; there is the one failure only.
C9_Witness ==
    /\ FromTool /\ run.fault = "save"
    /\ ~readThrows(pre.live[run.source])
    /\ \E t \in RegisteredSet \ {run.source} : pre.live[t].kind = "json"
    /\ live = pre.live /\ backups = pre.backups
    /\ Len(run.results) = 1 /\ run.results[1].tool = run.source
    /\ ~run.results[1].success

----------------------------------------------------------------------------
(* The converters called on their own *)

\* EntryTwo with its fields in another order
EntryTwoFields ==
    << <<"args", <<"x", "y">> >>, <<"command", "node">>,
       <<"env", << <<"K", "v">>, <<"L", "w">> >> >> >>

\* EntryTwo with the keys of its env in another order
EntryTwoEnv ==
    << <<"command", "node">>, <<"args", <<"x", "y">> >>,
       <<"env", << <<"L", "w">>, <<"K", "v">> >> >> >>

\* EntryTwo with its args in another order
EntryTwoArgs ==
    << <<"command", "node">>, <<"args", <<"y", "x">> >>,
       <<"env", << <<"K", "v">>, <<"L", "w">> >> >> >>

\* entries of a hand-edited document: without command, with a transport outside the
\* enum, with a field the converters do not know
EntryNoCommand == << <<"args", <<"x">> >> >>

EntryBadTransport == << <<"command", "node">>, <<"transport", "ws">> >>

EntryUnknown == << <<"command", "node">>, <<"cwd", "/srv">> >>

\* live files whose server a is written in one of these orders, and live files with a
\* valid server a next to a hand-edited server b
ConvLiveChoices ==
    LiveChoices \cup
    {[t \in AllTools |-> JsonFile(Doc(Theme, TRUE, [n \in {"a"} |-> e]))] :
        e \in {EntryTwo, EntryTwoFields, EntryTwoEnv, EntryTwoArgs}} \cup
    {[t \in AllTools |->
         JsonFile(Doc(Theme, TRUE, [n \in {"a", "b"} |-> IF n = "a" THEN EntryNode ELSE e]))] :
        e \in {EntryNoCommand, EntryBadTransport, EntryUnknown, EntryEdge}}

InitConv ==
    /\ master = AbsentMaster
    /\ config = NullConfig
    /\ live \in ConvLiveChoices
    /\ backups = OldBackups
    /\ clock = 1
    /\ faults = 0
    /\ pc = "idle"
    /\ run = NoRun
    /\ pre = Files
    /\ rt \in {[NoRoundTrip EXCEPT !.input = m] : m \in MasterMaps}
    /\ taken = NoneTaken

\* convertToMaster(convertFromMaster(M)) by the converter of one tool
RoundTrip(tool) ==
    /\ pc = "idle"
    /\ rt' = [rt EXCEPT !.tool = tool,
                        !.output = convertToMaster(tool,
                                       convertFromMaster(tool,
                                           MasterConfig(rt.input, ImportedSettings))).mcpServers]
    /\ pc' = "converted"
    /\ UNCHANGED <<master, config, live, backups, clock, faults, run, pre, taken>>

\* writeConfig(convertFromMaster(M)) by the converter of one tool
WriteConfigCall(tool) ==
    /\ pc = "idle"
    /\ live' = [live EXCEPT ![tool] =
                   writeConfig(tool, live[tool],
                               convertFromMaster(tool, MasterConfig(rt.input, ImportedSettings)))]
    /\ rt' = [rt EXCEPT !.tool = tool]
    /\ pc' = "written"
    /\ UNCHANGED <<master, config, backups, clock, faults, run, pre, taken>>

\* convertFromMaster(M) by the converter of one tool: the servers of the document
ConvertFromMasterCall(tool) ==
    /\ pc = "idle"
    /\ rt' = [rt EXCEPT !.tool = tool,
                        !.output = convertFromMaster(tool,
                                       MasterConfig(rt.input, ImportedSettings)).servers]
    /\ pc' = "projected"
    /\ UNCHANGED <<master, config, live, backups, clock, faults, run, pre, taken>>

\* detectChanges(readConfig(), {servers: M}) by the converter of one tool: the
\* entries of M it reports as modified
DetectChangesCall(tool) ==
    /\ pc = "idle"
    /\ ~readThrows(live[tool])
    /\ rt' = [rt EXCEPT !.tool = tool,
                        !.output = Restrict(rt.input,
                                       detectChanges(tool, readConfig(tool, live[tool]),
                                                     Doc(NoForeign, TRUE, rt.input)).modified)]
    /\ pc' = "detected"
    /\ UNCHANGED <<master, config, live, backups, clock, faults, run, pre, taken>>

\* convertToMaster(D) by the converter of one tool, D the document of its live file
ConvertToMasterCall(tool) ==
    /\ pc = "idle"
    /\ live[tool].kind = "json"
    /\ rt' = [tool |-> tool, input |-> live[tool].doc.servers,
              output |-> convertToMaster(tool, live[tool].doc).mcpServers]
    /\ pc' = "imported"
    /\ UNCHANGED <<master, config, live, backups, clock, faults, run, pre, taken>>

\* extractMCPServers(D) by the converter of one tool, D the document of its live file
ExtractMCPServersCall(tool) ==
    /\ pc = "idle"
    /\ live[tool].kind = "json"
    /\ rt' = [tool |-> tool, input |-> live[tool].doc.servers,
              output |-> extractMCPServers(tool, live[tool].doc)]
    /\ pc' = "extracted"
    /\ UNCHANGED <<master, config, live, backups, clock, faults, run, pre, taken>>

NextConv ==
    \/ \E tool \in AllTools : ConvertToMasterCall(tool)
    \/ \E tool \in AllTools : ExtractMCPServersCall(tool)
    \/ \E tool \in AllTools : DetectChangesCall(tool)
    \/ \E tool \in AllTools : ConvertFromMasterCall(tool)
    \/ \E tool \in AllTools : RoundTrip(tool)
    \/ \E tool \in AllTools : WriteConfigCall(tool)

SpecConv == InitConv /\ [][NextConv]_vars

----------------------------------------------------------------------------
(* The backup command, called again and again *)

\* the tools the backup command is run for
BackupTools == {"claude", "vscode"}

\* createBackup is called at most this often
MaxTaken == 4

InitBackup ==
    /\ master = AbsentMaster
    /\ config = NullConfig
    /\ live \in LiveChoices
    /\ backups = [t \in AllTools |-> NoSnapshots]
    /\ clock = 1
    /\ faults = 0
    /\ pc = "idle"
    /\ run = NoRun
    /\ pre = Files
    /\ rt = NoRoundTrip
    /\ taken = NoneTaken

\* time passes; two calls of createBackup may also read the same millisecond
Tick ==
    /\ clock < MaxClock
    /\ clock' = clock + 1
    /\ UNCHANGED <<master, config, live, backups, faults, pc, run, pre, rt, taken>>

\* the user edits a live file between two backups
EditLive(tool) ==
    /\ live[tool] # JsonFile(UserDocA)
    /\ live' = [live EXCEPT ![tool] = JsonFile(UserDocA)]
    /\ UNCHANGED <<master, config, backups, clock, faults, pc, run, pre, rt, taken>>

\* backupManager.createBackup(tool, path): null for an absent file, else a snapshot
CreateBackup(tool) ==
    /\ Len(taken[tool]) < MaxTaken
    /\ backups' = [backups EXCEPT ![tool] = createBackup(backups[tool], live[tool], clock)]
    /\ taken' = [taken EXCEPT ![tool] =
                    IF live[tool].kind = "absent" THEN @ ELSE Append(@, clock)]
    /\ UNCHANGED <<master, config, live, clock, faults, pc, run, pre, rt>>

NextBackup ==
    \/ Tick
    \/ \E tool \in BackupTools : EditLive(tool)
    \/ \E tool \in BackupTools : CreateBackup(tool)

SpecBackup == InitBackup /\ [][NextBackup]_vars

----------------------------------------------------------------------------
(* Properties of the converters and of the backups *)

\* the adapters whose writeConfig merges into the live file
MergeAdapters == {"claude", "claude-code", "cursor", "vscode"}

\* C2: after writeConfig of a merging adapter (Claude Desktop, Claude Code, Cursor,
\* VS Code) every top-level key of the live file other than the servers key is
\* still present with the value it had before the write.
C2_WriteKeepsForeignKeys ==
    (pc = "written" /\ rt.tool \in MergeAdapters /\ pre.live[rt.tool].kind = "json") =>
        /\ live[rt.tool].kind = "json"
        /\ \A k \in DOMAIN pre.live[rt.tool].doc.foreign :
               /\ k \in DOMAIN live[rt.tool].doc.foreign
               /\ live[rt.tool].doc.foreign[k] = pre.live[rt.tool].doc.foreign[k]

\* C2 witness: Claude Code's writeConfig replaced the servers of a live file that
\* holds theme: "dark", and the theme is still there.
C2_Witness ==
    /\ pc = "written" /\ rt.tool = "claude-code"
    /\ pre.live[rt.tool].kind = "json"
    /\ "theme" \in DOMAIN pre.live[rt.tool].doc.foreign
    /\ live[rt.tool].doc.servers # pre.live[rt.tool].doc.servers
    /\ "theme" \in DOMAIN live[rt.tool].doc.foreign
    /\ live[rt.tool].doc.foreign["theme"] = "dark"

\* C10: for every adapter and every master record without disabled entries,
\* convertToMaster(convertFromMaster(M)) has the server names of M and, for each
\* name, the same command, args, env, transport and url, an empty args, an empty env
\* and an empty-string url included.
C10_RoundTripKeepsCoreFields ==
    (pc = "converted" /\ EnabledNames(rt.input) = DOMAIN rt.input) =>
        /\ DOMAIN rt.output = DOMAIN rt.input
        /\ \A n \in DOMAIN rt.input : SameCore(rt.output[n], rt.input[n])

\* C5: after more snapshots of a target than the retention count, exactly that many
\* remain; after any snapshot there are at least one and at most that many; the
\* snapshot just taken is retained and no retained snapshot is older than a deleted one.
C5_RetentionKeepsNewest ==
    \A t \in AllTools :
        LET kept == DOMAIN backups[t]
        IN  /\ Len(taken[t]) > maxBackups => Cardinality(kept) = maxBackups
            /\ Len(taken[t]) >= 1 => (1 <= Cardinality(kept) /\ Cardinality(kept) <= maxBackups)
            /\ Len(taken[t]) >= 1 => taken[t][Len(taken[t])] \in kept
            /\ \A i \in DOMAIN taken[t] :
                   taken[t][i] \notin kept => \A ts \in kept : taken[t][i] < ts

\* C11: for every adapter and every master record, no server with disabled = true is
\* among the servers of convertFromMaster(M), and every server whose disabled is
\* false or unset is.
C11_DisabledNeverProjected ==
    pc = "projected" =>
        \A n \in DOMAIN rt.input :
            LET c == rt.input[n]
            IN  /\ (Has(c, "disabled") /\ Get(c, "disabled") = TRUE) => n \notin DOMAIN rt.output
                /\ (~Has(c, "disabled") \/ Get(c, "disabled") = FALSE) => n \in DOMAIN rt.output

\* C11 witness: of a disabled server and one with disabled: false, VS Code's
\* convertFromMaster yields the second only.
C11_Witness ==
    /\ pc = "projected" /\ rt.tool = "vscode"
    /\ DOMAIN rt.input = {"a", "b"}
    /\ rt.input["a"] = EntryOff /\ rt.input["b"] = EntrySse
    /\ DOMAIN rt.output = {"b"}

\* equality of two env objects, whatever the order of their keys
SameEnv(e, f) == Keys(e) = Keys(f) /\ \A k \in Keys(e) : Get(e, k) = Get(f, k)

\* structural equality of two entries: the same fields with the same values, whatever
\* the order of the fields and of the keys of env; args is compared as a list
SameEntry(x, y) ==
    /\ Keys(x) = Keys(y)
    /\ \A k \in Keys(x) :
           IF k = "env" THEN SameEnv(Get(x, k), Get(y, k)) ELSE Get(x, k) = Get(y, k)

\* C12: detectChanges reports a server of both documents as modified if and only if
\* its two entries differ structurally: a different order of the fields or of the keys
\* of env is no modification, a different order of args is one.
C12_ModifiedIffStructurallyDifferent ==
    pc = "detected" =>
        LET old == extractMCPServers(rt.tool, readConfig(rt.tool, pre.live[rt.tool]))
        IN  \A n \in DOMAIN old \cap DOMAIN rt.input :
                n \in DOMAIN rt.output <=> ~SameEntry(old[n], rt.input[n])

----------------------------------------------------------------------------
(* The read-only reports of the engine *)

\* the registered tools whose live document defines the server, in registration
\* order; a tool whose live file cannot be read contributes nothing
serverOwnership(files, name) ==
    SelectSeq(Registered,
              LAMBDA t : /\ ~readThrows(files[t])
                         /\ name \in DOMAIN extractMCPServers(t, readConfig(t, files[t])))

\* a variant that keeps the servers of a single tool as well
detectConflictsAny(files) ==
    [name \in {n \in Names : Len(serverOwnership(files, n)) > 0} |->
        serverOwnership(files, name)]

\* detectConflicts: the servers that more than one tool defines, with those tools
detectConflicts(files) ==
    [name \in {n \in Names : Len(serverOwnership(files, n)) > 1} |->
        serverOwnership(files, name)]

\* the live files of the registered tools, each on its own
StatusLiveChoices ==
    {[t \in AllTools |-> IF t \in RegisteredSet THEN f[t] ELSE AbsentFile] :
        f \in [RegisteredSet ->
                  {AbsentFile, CorruptFile, JsonFile(UserDocA), JsonFile(UserDocB)}]}

InitStatus ==
    /\ master = AbsentMaster
    /\ config = NullConfig
    /\ live \in StatusLiveChoices
    /\ backups = OldBackups
    /\ clock = 1
    /\ faults = 0
    /\ pc = "idle"
    /\ run = NoRun
    /\ pre = Files
    /\ rt = NoRoundTrip
    /\ taken = NoneTaken

\* syncEngine.detectConflicts(): the map returned, no file touched
DetectConflicts ==
    /\ pc = "idle"
    /\ rt' = [rt EXCEPT !.tool = "all", !.output = detectConflicts(live)]
    /\ pc' = "conflicts"
    /\ UNCHANGED <<master, config, live, backups, clock, faults, run, pre, taken>>

NextStatus == DetectConflicts

SpecStatus == InitStatus /\ [][NextStatus]_vars

\* the registered targets whose readable live document defines the server
C13_Defining(name) ==
    {t \in RegisteredSet :
        /\ live[t].kind = "json"
        /\ name \in DOMAIN extractMCPServers(t, live[t].doc)}

C14_EmptyProjectionDeletesServersKey ==
    (Writing /\ run.kind = "master" /\ EnabledNames(run.masterConfig.mcpServers) = {}) =>
        \A i \in DOMAIN run.results :
            LET r == run.results[i]
                before == pre.live[r.tool]
            IN  (/\ r.success
                 /\ before.kind = "json"
                 /\ before.doc.hasServers
                 /\ DOMAIN before.doc.foreign # {}) =>
                    /\ ~live[r.tool].doc.hasServers
                    /\ live[r.tool].doc.foreign = before.doc.foreign

C16_SixRegisteredTargets ==
    /\ (pc = "done" /\ run.kind = "master" /\ ~run.opts.hasTools
          /\ getEnabledTools(run.masterConfig) = Registered) =>
            {run.results[i].tool : i \in DOMAIN run.results} = AllTools
    /\ (pc \in {"syncing", "done"} /\ run.kind = "master") =>
            \A i \in DOMAIN run.results :
                run.results[i].tool = "claude-code" => run.results[i].error # "Unknown tool"
    /\ (run.kind = "tool" /\ run.source = "claude-code") => pc # "threw"

\* C17: a dry-run syncFromTool writes no file: the master file, every live file and
\* the backup directory are as they were before the invocation.
C17_DryRunFromToolChangesNothing ==
    (pc \in {"syncing", "done"} /\ run.kind = "tool" /\ run.opts.dryRun) => Files = pre

\* C18: a sync prunes with the master's globalSettings.backupRetentionCount: for a
\* master whose backupRetentionCount is N, a target that a non-dry-run sync has
\* snapshotted holds at most N snapshots.
C18_RetentionCountFromSettings ==
    (Writing /\ run.kind = "master" /\ SnapshotsWanted
       /\ Has(run.masterConfig.globalSettings, "backupRetentionCount")) =>
        \A i \in DOMAIN run.results :
            LET r == run.results[i]
            IN  (r.success /\ pre.live[r.tool].kind # "absent") =>
                    Cardinality(DOMAIN backups[r.tool])
                        <= Get(run.masterConfig.globalSettings, "backupRetentionCount")

----------------------------------------------------------------------------
(* The ConfigManager called on its own *)

\* what MCPServerConfigSchema.parse returns: the known fields, in the schema's order
parseEntry(c) ==
    Field(c, "command", TRUE)
      \o Field(c, "args", TRUE)
      \o Field(c, "env", TRUE)
      \o Field(c, "disabled", TRUE)
      \o Field(c, "alwaysAllow", TRUE)
      \o Field(c, "autoApprove", TRUE)
      \o Field(c, "transport", TRUE)
      \o Field(c, "type", TRUE)
      \o Field(c, "url", TRUE)
      \o Field(c, "metadata", TRUE)

\* what validateConfig returns for a record it accepts
parseConfig(cfg) ==
    MasterConfig([n \in DOMAIN cfg.mcpServers |-> parseEntry(cfg.mcpServers[n])],
                 cfg.globalSettings)

\* a server name that every JavaScript object inherits as a property
ProtoNames == {"constructor"}

\* this.config.mcpServers[name] as a condition: an own entry, or an inherited property
hasServer(mcpServers, name) == name \in DOMAIN mcpServers \/ name \in ProtoNames

\* {...old, ...server}: the keys of old in place, the new keys after them
Merge(old, server) ==
    [i \in DOMAIN old |->
        IF Has(server, old[i][1]) THEN <<old[i][1], Get(server, old[i][1])>> ELSE old[i]]
      \o SelectSeq(server, LAMBDA kv : ~Has(old, kv[1]))

\* the own properties of this.config.mcpServers[name] that a spread copies
ownEntry(mcpServers, name) == IF name \in DOMAIN mcpServers THEN mcpServers[name] ELSE <<>>

\* the assignment or delete that addServer, updateServer and removeServer make
mutateServers(kind, name, server, mcpServers) ==
    CASE kind = "add" ->
            [n \in DOMAIN mcpServers \cup {name} |->
                IF n = name THEN server ELSE mcpServers[n]]
      [] kind = "update" ->
            [n \in DOMAIN mcpServers \cup {name} |->
                IF n = name THEN Merge(ownEntry(mcpServers, name), server)
                ELSE mcpServers[n]]
      [] OTHER -> Restrict(mcpServers, DOMAIN mcpServers \ {name})

\* the guards of the three mutations: 'already exists' and 'not found'
nameCheckThrows(kind, mcpServers, name) ==
    \/ kind = "add" /\ hasServer(mcpServers, name)
    \/ kind # "add" /\ ~hasServer(mcpServers, name)

\* what one mutation leaves: the master file, the cache and the error thrown, if any
StoreOutcome(file, cache, error) == [file |-> file, cache |-> cache, error |-> error]

\* addServer, updateServer, removeServer: load when nothing is cached, check the
\* name, change the cached record in place, then saveConfig
storeOp(kind, name, server, file, cache, fault) ==
    IF cache.kind # "json" /\ loadThrows(file)
    THEN StoreOutcome(file, cache, "load")
    ELSE LET cur == IF cache.kind = "json" THEN cache.cfg ELSE parseConfig(file.cfg)
             next == MasterConfig(mutateServers(kind, name, server, cur.mcpServers),
                                  cur.globalSettings)
         IN  IF nameCheckThrows(kind, cur.mcpServers, name)
             THEN StoreOutcome(file, Cached(cur), "name")
             ELSE IF validateThrows(next)
             THEN StoreOutcome(file, Cached(next), "invalid")
             ELSE IF fault = "save"
             THEN StoreOutcome(file, Cached(next), "save")
             ELSE StoreOutcome(MasterFile(parseConfig(next)), Cached(parseConfig(next)), "")

\* the servers of the record the store holds before a call: the cache, or else the file
heldServers(file, cache) ==
    IF cache.kind = "json" THEN cache.cfg.mcpServers
    ELSE IF loadThrows(file) THEN NoServers
    ELSE parseConfig(file.cfg).mcpServers

StoreNames == Names \cup ProtoNames

\* the entries handed to addServer: a valid one, one in another field order, a rejected
\* one and a remote one without url
\* a remote server without a url: MCPServerConfigSchema accepts it
EntrySseNoUrl == << <<"command", "node">>, <<"transport", "sse">> >>

StoreServers == {EntryNode, EntryTwoFields, EntryBad, EntrySseNoUrl}

PartialArgs == << <<"args", <<"z">> >> >>

PartialFull == << <<"command", "go">>, <<"url", "http://h">> >>

PartialBad == << <<"command", "">> >>

\* the partial entries handed to updateServer
StorePartials == {PartialArgs, PartialFull, PartialBad}

StoreMasters ==
    {AbsentMaster, MasterFile(MasterConfig([n \in {"a"} |-> EntryBad], Settings(TRUE, {}))),
     MasterFile(MasterConfig([n \in {"a"} |-> EntrySseNoUrl], Settings(TRUE, {})))}
      \cup {MasterFile(MasterConfig(m, Settings(TRUE, {}))) :
                m \in Maps(Names, {EntryNode, EntrySse})}

InitStore ==
    /\ master \in StoreMasters
    /\ config = NullConfig
    /\ live = [t \in AllTools |-> AbsentFile]
    /\ backups = [t \in AllTools |-> NoSnapshots]
    /\ clock = 1
    /\ faults = MaxFaults
    /\ pc = "idle"
    /\ run = NoRun
    /\ pre = Files
    /\ rt = NoRoundTrip
    /\ taken = NoneTaken

\* one call of a mutation that returns or throws; saveConfig reads the clock once
StoreCall(kind, name, server, fault) ==
    /\ pc = "idle"
    /\ clock < MaxClock
    /\ fault = "save" => faults > 0 /\ storeOp(kind, name, server, master, config, "none").error = ""
    /\ LET o == storeOp(kind, name, server, master, config, fault)
       IN  /\ master' = o.file
           /\ config' = o.cache
           /\ run' = [NoRun EXCEPT !.kind = kind, !.source = name, !.fault = fault,
                         !.results = << [tool |-> "master", success |-> o.error = "",
                                         error |-> o.error] >>]
    /\ rt' = [tool |-> "master", input |-> heldServers(master, config),
              output |-> [n \in {name} |-> server]]
    /\ pre' = Files
    /\ clock' = clock + 1
    /\ faults' = IF fault = "save" THEN faults - 1 ELSE faults
    /\ UNCHANGED <<live, backups, pc, taken>>

AddServer(name, server, fault) == StoreCall("add", name, server, fault)

UpdateServer(name, server, fault) == StoreCall("update", name, server, fault)

RemoveServer(name, fault) == StoreCall("remove", name, <<>>, fault)

\* a master file that holds the beginning of a JSON text, or nothing
TornMaster == [kind |-> "corrupt", cfg |-> MasterConfig(NoServers, <<>>)]

\* how far fs.writeFile got when the process stopped: before it opened the file, after
\* it opened and truncated it, or after the last byte
WrittenChoices == {"nothing", "part", "all"}

\* FileUtils.writeJson interrupted: writeFile opens the master file itself for writing
writeJsonStopped(file, cfg, written) ==
    CASE written = "nothing" -> file
      [] written = "part" -> TornMaster
      [] OTHER -> MasterFile(cfg)

\* the process stops inside the saveConfig of a mutation that got as far as the write
StoreCrash(kind, name, server, written) ==
    /\ pc = "idle"
    /\ clock < MaxClock
    /\ storeOp(kind, name, server, master, config, "none").error = ""
    /\ LET cfg == storeOp(kind, name, server, master, config, "none").cache.cfg
       IN  /\ master' = writeJsonStopped(master, cfg, written)
           /\ run' = [NoRun EXCEPT !.kind = kind, !.source = name, !.fault = "crash",
                         !.masterConfig = cfg]
    /\ config' = NullConfig
    /\ pc' = "crashed"
    /\ rt' = [tool |-> "master", input |-> heldServers(master, config),
              output |-> [n \in {name} |-> server]]
    /\ pre' = Files
    /\ clock' = clock + 1
    /\ UNCHANGED <<live, backups, faults, taken>>

\* the globalSettings that createDefaultConfig writes
SettingsDefault ==
    << <<"backupEnabled", TRUE>>, <<"syncOnChange", TRUE>>,
       <<"backupRetentionCount", 10>>, <<"excludeTools", {}>> >>

DefaultConfig == MasterConfig(NoServers, SettingsDefault)

\* ConfigManager.exists(): the master file is there, whatever it holds
exists(file) == file.kind # "absent"

\* ConfigManager.initialize(): the default record is saved only when no file exists
initialize(file, cache) ==
    IF exists(file) THEN StoreOutcome(file, cache, "")
    ELSE StoreOutcome(MasterFile(DefaultConfig), Cached(DefaultConfig), "")

\* the action of the init command
initCommand(file, cache, force) ==
    IF exists(file) /\ ~force THEN StoreOutcome(file, cache, "")
    ELSE initialize(file, cache)

\* mcp-sync init [--force] in a new process
InitCommand(force) ==
    /\ pc = "idle"
    /\ config = NullConfig
    /\ clock < MaxClock
    /\ LET o == initCommand(master, config, force)
       IN  /\ master' = o.file
           /\ config' = o.cache
    /\ run' = [NoRun EXCEPT !.kind = "init", !.opts = [force |-> force]]
    /\ rt' = NoRoundTrip
    /\ pre' = Files
    /\ clock' = IF exists(master) THEN clock ELSE clock + 1
    /\ UNCHANGED <<live, backups, faults, pc, taken>>

NextStore ==
    \/ \E force \in BOOLEAN : InitCommand(force)
    \/ \E name \in StoreNames, server \in StoreServers, fault \in {"none", "save"} :
          AddServer(name, server, fault)
    \/ \E name \in StoreNames, server \in StorePartials, fault \in {"none", "save"} :
          UpdateServer(name, server, fault)
    \/ \E name \in StoreNames, fault \in {"none", "save"} : RemoveServer(name, fault)
    \/ \E kind \in {"add", "update", "remove"}, name \in StoreNames,
          server \in StoreServers \cup StorePartials, written \in WrittenChoices :
          StoreCrash(kind, name, server, written)

SpecStore == InitStore /\ [][NextStore]_vars

\* the entry of a name after updateServer: the fields given replace or join the old ones
Merged(entry, old, server) ==
    /\ Keys(entry) = Keys(old) \cup Keys(server)
    /\ \A k \in Keys(entry) :
           Get(entry, k) = IF Has(server, k) THEN Get(server, k) ELSE Get(old, k)

\* C19: addServer fails when the name exists, updateServer and removeServer fail when
\* it does not, and then the master file and the servers of the record are unchanged;
\* on success exactly the named entry is added, merged or removed, every other entry
\* is unchanged, and the master file holds the result.
C19_NameKeyedMutations ==
    pc = "idle" /\ run.kind \in {"add", "update", "remove"} =>
        LET before == rt.input
            name == run.source
            ok == run.results[1].success
            existed == name \in DOMAIN before
            refused == \/ run.kind = "add" /\ existed
                       \/ run.kind # "add" /\ ~existed
            others == DOMAIN before \ {name}
        IN  /\ refused => ~ok
            /\ refused => /\ master = pre.master
                          /\ config.kind = "json" => config.cfg.mcpServers = before
            /\ ok => /\ master.kind = "json"
                     /\ config.kind = "json"
                     /\ master.cfg.mcpServers = config.cfg.mcpServers
                     /\ LET after == master.cfg.mcpServers
                        IN  /\ DOMAIN after = IF run.kind = "remove" THEN others
                                              ELSE DOMAIN before \cup {name}
                            /\ \A n \in others : SameEntry(after[n], before[n])
                            /\ run.kind = "add" => SameEntry(after[name], rt.output[name])
                            /\ run.kind = "update" =>
                                   Merged(after[name], before[name], rt.output[name])

\* C20: when the process stops at any point during saveConfig, the master file holds
\* either the complete previous record or the complete new record, never a truncated
\* or partially written one.
C20_SaveIsAtomic ==
    pc = "crashed" => master \in {pre.master, MasterFile(run.masterConfig)}

\* a server that is reached over the network and says not where
RemoteWithoutUrl(entry) ==
    /\ Has(entry, "transport")
    /\ Get(entry, "transport") \in {"sse", "http"}
    /\ ~Has(entry, "url")

\* C21: loadConfig and saveConfig reject every record with a server whose transport is
\* sse or http and that has no url, so the record the store holds after a successful
\* operation, and the master file it wrote, contain no such server.
C21_RemoteServersCarryUrl ==
    pc = "idle" /\ run.kind \in {"add", "update", "remove"} /\ run.results[1].success =>
        /\ \A n \in DOMAIN config.cfg.mcpServers : ~RemoteWithoutUrl(config.cfg.mcpServers[n])
        /\ \A n \in DOMAIN master.cfg.mcpServers : ~RemoteWithoutUrl(master.cfg.mcpServers[n])

\* C22: a sync whose target list names an unregistered adapter aborts before any
\* per-target work: no live file is written and no snapshot is taken, for the valid
\* targets of the list either.
C22_UnknownTargetAborts ==
    (/\ run.kind \in {"master", "tool"}
     /\ run.opts.hasTools
     /\ \E i \in DOMAIN run.opts.tools : run.opts.tools[i] \notin RegisteredSet)
        => live = pre.live /\ backups = pre.backups

\* C23: when the master file already exists, init --force leaves it holding the default
\* empty record (no servers, default global settings), and init without --force leaves
\* it unchanged.
C23_InitForceOverwrites ==
    run.kind = "init" /\ exists(pre.master) =>
        IF run.opts.force THEN master = MasterFile(DefaultConfig) ELSE master = pre.master

\* an entry that passes the per-field structural validation, for the fields the model
\* can get wrong: a non-empty command, a transport of the enum
StructurallyValid(entry) ==
    /\ Truthy(entry, "command")
    /\ Has(entry, "transport") => Get(entry, "transport") \in {"stdio", "sse", "http"}

\* C24: for every adapter, convertToMaster on a document with structurally invalid
\* entries returns a record whose servers omit every invalid entry and include every
\* valid one.
C24_ImportDropsInvalidEntries ==
    pc = "imported" =>
        DOMAIN rt.output = {n \in DOMAIN rt.input : StructurallyValid(rt.input[n])}

WithoutMetadata(entry) == SelectSeq(entry, LAMBDA kv : kv[1] # "metadata")

\* C25: for every adapter and document, extractMCPServers returns the same server names
\* as convertToMaster and, for each name, the same fields and values once metadata is
\* removed from the latter.
C25_ExtractEqualsImportMinusMetadata ==
    pc = "extracted" =>
        LET imported == convertToMaster(rt.tool, Doc(NoForeign, TRUE, rt.input)).mcpServers
        IN  /\ DOMAIN rt.output = DOMAIN imported
            /\ \A n \in DOMAIN rt.output :
                   SameEntry(rt.output[n], WithoutMetadata(imported[n]))

\* one step keeps the content of every snapshot it does not delete, and a snapshot
\* taken where nothing has to be pruned is one snapshot more
C26_Step ==
    \A t \in AllTools :
        /\ \A ts \in DOMAIN backups[t] \cap DOMAIN backups'[t] :
               backups'[t][ts] = backups[t][ts]
        /\ (taken'[t] # taken[t] /\ Cardinality(DOMAIN backups[t]) < maxBackups) =>
               Cardinality(DOMAIN backups'[t]) = Cardinality(DOMAIN backups[t]) + 1

\* C26: snapshots are append-only: the content of a snapshot never changes, no later
\* snapshot of the same target overwrites an existing one, also at the same clock
\* reading, and every successful createBackup adds one snapshot before pruning.
C26_SnapshotsAppendOnly == [][C26_Step]_vars

\* one iteration of the target loop in which the copy of the snapshot fails leaves the
\* live file alone, reports a failure and goes on; one in which the pruning fails
\* keeps the snapshot and writes as if nothing had failed
C27_Step ==
    (pc = "syncing" /\ Len(run'.results) = Len(run.results) + 1) =>
        LET r == run'.results[Len(run'.results)]
        IN  /\ run'.fault = "copy" =>
                  /\ live'[r.tool] = live[r.tool]
                  /\ ~r.success
                  /\ run'.queue = Tail(run.queue)
                  /\ pc' = "syncing"
            /\ run'.fault = "prune" =>
                  /\ clock \in DOMAIN backups'[r.tool]
                  /\ backups'[r.tool][clock] = live[r.tool]
                  /\ ~readThrows(live[r.tool]) =>
                         /\ r.success
                         /\ live'[r.tool] =
                                writeConfig(r.tool, live[r.tool],
                                            convertFromMaster(r.tool, run.masterConfig))

\* C27: in a non-dry-run sync with snapshots wanted, a target whose snapshot fails is
\* not written, its outcome is a failure and the run goes on with the next target; a
\* failure inside retention pruning fails neither the snapshot nor the write.
C27_FailedSnapshotBlocksWrite == [][C27_Step]_vars

\* C27 witness: a finished run in which the snapshot of one target failed, that target's
\* live file is as before, and a later target was written.
C27_Witness ==
    /\ pc = "done" /\ SnapshotsWanted /\ run.fault = "none"
    /\ \E i, j \in DOMAIN run.results :
           /\ i < j
           /\ run.results[i].error = "backup"
           /\ ~run.results[i].success
           /\ live[run.results[i].tool] = pre.live[run.results[i].tool]
           /\ run.results[j].success
           /\ live[run.results[j].tool] # pre.live[run.results[j].tool]

----------------------------------------------------------------------------
(* A sync from the master, followed by a second sync or by the status report *)

\* does getSyncStatus find tool out of sync with the master: its read throws, or
\* detectChanges against convertFromMaster reports a change
hasChanges(tool, file, masterConfig) ==
    \/ readThrows(file)
    \/ LET changes == detectChanges(tool, readConfig(tool, file),
                                    convertFromMaster(tool, masterConfig))
       IN  changes.added # {} \/ changes.modified # {} \/ changes.removed # {}

\* getSyncStatus: the registered tools that clear allInSync
outOfSync(files, masterConfig) ==
    {t \in RegisteredSet : hasChanges(t, files[t], masterConfig)}

\* syncFromMaster({tools: [tool], dryRun}) after a finished run that wrote tool; the
\* master file and the live file are as that run left them, the clock may have moved
SyncAgain(tool, dryRun) ==
    /\ pc = "done"
    /\ run.kind = "master" /\ ~run.opts.dryRun
    /\ \E i \in DOMAIN run.results : run.results[i].tool = tool /\ run.results[i].success
    /\ \E now \in clock..MaxClock :
           LET out == syncToolFromMaster(tool, master.cfg,
                                         [run.opts EXCEPT !.dryRun = dryRun],
                                         live[tool], backups[tool], now, "none")
           IN  /\ live' = [live EXCEPT ![tool] = out.file]
               /\ backups' = [backups EXCEPT ![tool] = out.dir]
               /\ run' = [run EXCEPT !.opts = [run.opts EXCEPT !.dryRun = dryRun],
                                     !.results = <<out.result>>, !.fault = "none"]
               /\ rt' = [tool |-> tool, input |-> live[tool].doc.servers,
                         output |-> out.file.doc.servers]
               /\ clock' = now
    /\ pc' = "again"
    /\ UNCHANGED <<master, config, faults, pre, taken>>

\* getSyncStatus() after a finished run: the tools that are out of sync
GetSyncStatus ==
    /\ pc = "done"
    /\ run.kind = "master"
    /\ rt' = [tool |-> "all", input |-> NoServers,
              output |-> [t \in outOfSync(live, master.cfg) |-> <<>>]]
    /\ pc' = "status"
    /\ UNCHANGED <<master, config, live, backups, clock, faults, run, pre, taken>>

NextAgain ==
    \/ \E opts \in OptionChoices : SyncFromMaster(opts)
    \/ SyncToolStep
    \/ Return
    \/ \E tool \in AllTools, dryRun \in BOOLEAN : SyncAgain(tool, dryRun)
    \/ GetSyncStatus

SpecAgain == Init /\ [][NextAgain]_vars

\* C28: a second syncFromMaster to a target that a non-dry-run sync has just written,
\* dry-run or not, reports added = 0, modified = 0 and removed = 0 and leaves the
\* target's servers unchanged; and after a successful sync to all registered targets
\* getSyncStatus reports inSync = true.
C28_SyncIsIdempotent ==
    /\ pc = "again" =>
           /\ run.results[1].success
           /\ run.results[1].addedServers = 0
           /\ run.results[1].modifiedServers = 0
           /\ run.results[1].removedServers = 0
           /\ rt.output = rt.input
    /\ (/\ pc = "status" /\ ~run.opts.dryRun
        /\ \A t \in RegisteredSet :
               \E i \in DOMAIN run.results : run.results[i].tool = t /\ run.results[i].success)
           => DOMAIN rt.output = {}

\* C28 witness: the first sync changed the servers of a target to the non-empty
\* projection of the master, and the second sync, not a dry run, has run on it.
C28_Witness ==
    /\ pc = "again" /\ ~run.opts.dryRun
    /\ rt.input # NoServers
    /\ pre.live[rt.tool].kind = "json"
    /\ pre.live[rt.tool].doc.servers # rt.input
    /\ live[rt.tool].doc.servers = rt.input

\* two server maps with the same names and structurally equal entries
SameServers(x, y) == DOMAIN x = DOMAIN y /\ \A n \in DOMAIN x : SameEntry(x[n], y[n])

\* C29: after a mutation of the ConfigManager, whether it returned or threw, the cached
\* record has the same servers and global settings as the master file; a mutation
\* whose save was rejected by validation or failed on I/O leaves the cached servers as
\* they were before the call.
C29_CacheMatchesFile ==
    (pc = "idle" /\ run.kind \in {"add", "update", "remove"} /\ config.kind = "json") =>
        /\ master.kind = "json"
        /\ SameServers(config.cfg.mcpServers, master.cfg.mcpServers)
        /\ config.cfg.globalSettings = master.cfg.globalSettings
        /\ run.results[1].error \in {"invalid", "save"} =>
               SameServers(config.cfg.mcpServers, rt.input)

\* C30: a successful syncFromTool replaces the whole master record: whatever the
\* globalSettings were, the persisted master then has backupEnabled = true,
\* syncOnChange = true and neither excludeTools nor backupRetentionCount; so the
\* fan-out reaches the targets the old master excluded, and snapshots every target
\* it writes unless skipBackup is set.
C30_FromToolReplacesMaster ==
    (FromTool /\ ~C9_InitialStepFails) =>
        /\ master.kind = "json"
        /\ master.cfg.mcpServers = C8_Converted
        /\ Keys(master.cfg.globalSettings) = {"backupEnabled", "syncOnChange"}
        /\ Get(master.cfg.globalSettings, "backupEnabled") = TRUE
        /\ Get(master.cfg.globalSettings, "syncOnChange") = TRUE
        /\ ~run.opts.hasTools =>
               \A t \in RegisteredSet \ {run.source} :
                   \E i \in DOMAIN run.results : run.results[i].tool = t
        /\ ~run.opts.dryRun =>
               \A i \in DOMAIN run.results :
                   LET r == run.results[i]
                   IN  r.success =>
                         /\ live[r.tool] =
                                writeConfig(r.tool, pre.live[r.tool],
                                            convertFromMaster(r.tool, master.cfg))
                         /\ (~run.opts.skipBackup /\ pre.live[r.tool].kind # "absent") =>
                                /\ clock \in DOMAIN backups[r.tool]
                                /\ backups[r.tool][clock] = pre.live[r.tool]

\* C30 witness: the old master excluded cline and asked for one backup; the run from
\* another tool wrote cline all the same, after a snapshot of its live file.
C30_Witness ==
    /\ FromTool /\ ~C9_InitialStepFails
    /\ ~run.opts.dryRun /\ ~run.opts.skipBackup /\ ~run.opts.hasTools
    /\ pre.master.kind = "json"
    /\ Has(pre.master.cfg.globalSettings, "excludeTools")
    /\ Get(pre.master.cfg.globalSettings, "excludeTools") = {"cline"}
    /\ master # pre.master
    /\ \E i \in DOMAIN run.results :
           /\ run.results[i].tool = "cline"
           /\ run.results[i].success
           /\ live["cline"] # pre.live["cline"]
           /\ pre.live["cline"].kind = "json"
           /\ backups["cline"][clock] = pre.live["cline"]

====
